---- MODULE Spec2Model ----
(***************************************************************************)
(* A model of main.py: the follower extractor (extract_followers), the     *)
(* link finder (find_links), the bounded breadth-first SocialCrawler, the  *)
(* organization processor (process) and the joblib fan-out of main().      *)
(*                                                                         *)
(* Strings that the code inspects (URLs, response bodies) are sequences of *)
(* tokens, so that startswith, replace, substring containment and the      *)
(* regular expressions are computed and not assumed.  Python values that   *)
(* come out of a decoded JSON document are tagged records [t, ...].        *)
(***************************************************************************)
EXTENDS Integers, Sequences, FiniteSets, TLC

\* ------------------------------------------------------------------ bounds
\* Largest visit cap (SocialCrawler.MAX_ITER) a run is configured with.
MaxCap == 3
\* Largest number of distinct same-site links on the fan-out pages.
MaxFanout == 2

\* ------------------------------------------------------- token strings
HTTP == <<"http", "://">>
HTTPS == <<"http", "s", "://">>

RECURSIVE Replace(_, _)
\* str.replace(pat, ""): drop every occurrence of pat, scanning left to right.
Replace(s, pat) ==
    IF Len(s) < Len(pat) \/ Len(pat) = 0 THEN s
    ELSE IF SubSeq(s, 1, Len(pat)) = pat
         THEN Replace(SubSeq(s, Len(pat) + 1, Len(s)), pat)
         ELSE <<Head(s)>> \o Replace(Tail(s), pat)

\* Python's `needle in hay` on strings.
Contains(hay, needle) ==
    \E i \in 1..(Len(hay) + 1) :
        /\ i + Len(needle) - 1 <= Len(hay)
        /\ SubSeq(hay, i, i + Len(needle) - 1) = needle

\* str.startswith('http')
StartsWithHttp(u) == Len(u) >= 1 /\ u[1] = "http"

\* requests only sends a URL that carries a scheme; anything else raises
\* MissingSchema / InvalidSchema before any traffic.
HasScheme(u) ==
    \/ Len(u) >= 2 /\ SubSeq(u, 1, 2) = HTTP
    \/ Len(u) >= 3 /\ SubSeq(u, 1, 3) = HTTPS

\* --------------------------------------------------- decoded JSON values
\* [t: type tag, v: the integer, k: an object's single key ("" for the empty
\* object), f: an array's elements, or the value under an object's key]
JInt(n) == [t |-> "int", v |-> n, k |-> "", f |-> <<>>]
JStr == [t |-> "str", v |-> 0, k |-> "", f |-> <<>>]
JNull == [t |-> "null", v |-> 0, k |-> "", f |-> <<>>]
JArr(s) == [t |-> "arr", v |-> 0, k |-> "", f |-> s]
JEmptyObj == [t |-> "obj", v |-> 0, k |-> "", f |-> <<>>]
JObj(key, x) == [t |-> "obj", v |-> 0, k |-> key, f |-> <<x>>]

IsInt(x) == x.t = "int"
\* set.add hashes the tuple, which hashes each member: lists and dicts raise
\* TypeError.
Hashable(x) == x.t \notin {"arr", "obj"}

\* The result of evaluating a Python expression: a value, or an exception.
Ok(x) == [exc |-> "", val |-> x]
Raise(e) == [exc |-> e, val |-> JNull]

\* d[k] for a string key k
GetKey(d, k) ==
    IF d.t = "obj"
    THEN IF Len(d.f) = 1 /\ d.k = k THEN Ok(d.f[1]) ELSE Raise("KeyError")
    ELSE Raise("TypeError")

\* d[0]
GetFirst(d) ==
    IF d.t = "arr"
    THEN IF Len(d.f) >= 1 THEN Ok(d.f[1]) ELSE Raise("IndexError")
    ELSE IF d.t = "obj" THEN Raise("KeyError") ELSE Raise("TypeError")

RECURSIVE GetPath(_, _)
\* d[k1][k2]...[kn]
GetPath(d, ks) ==
    IF ks = <<>> THEN Ok(d)
    ELSE LET r == GetKey(d, Head(ks))
         IN IF r.exc # "" THEN r ELSE GetPath(r.val, Tail(ks))

\* ------------------------------------------------------ response bodies
EM_OPEN == "<em class=\"pm_counter\">"
EM_CLOSE == "</em>"
FB_TAIL == " people follow this"
Digits == {"0", "1", "2", "3", "4", "5", "6", "7", "8", "9"}
\* the character class [\d,]
NumChars == Digits \cup {","}

DigitVal(c) ==
    CASE c = "0" -> 0 [] c = "1" -> 1 [] c = "2" -> 2 [] c = "3" -> 3
      [] c = "4" -> 4 [] c = "5" -> 5 [] c = "6" -> 6 [] c = "7" -> 7
      [] c = "8" -> 8 [] c = "9" -> 9

RECURSIVE RunLen(_, _)
\* length of the longest run of [\d,] characters of body that starts at i
RunLen(body, i) ==
    IF i <= Len(body) /\ body[i] \in NumChars THEN 1 + RunLen(body, i + 1) ELSE 0

RECURSIVE StripCommas(_)
StripCommas(s) ==
    IF s = <<>> THEN <<>>
    ELSE IF Head(s) = "," THEN StripCommas(Tail(s))
         ELSE <<Head(s)>> \o StripCommas(Tail(s))

RECURSIVE Decimal(_)
Decimal(s) ==
    IF s = <<>> THEN 0 ELSE 10 * Decimal(SubSeq(s, 1, Len(s) - 1)) + DigitVal(s[Len(s)])

\* int(group.replace(',', '')): int('') raises ValueError
ParseCount(group) ==
    LET d == StripCommas(group)
    IN IF d = <<>> THEN Raise("ValueError") ELSE Ok(JInt(Decimal(d)))

\* re.match(VK_REGEXP, text): anchored at the start of the body.
\* <<>> stands for None, otherwise the captured group.
VkMatch(text) ==
    LET n == RunLen(text, 2)
    IN IF /\ Len(text) >= 1
          /\ text[1] = EM_OPEN
          /\ n >= 1
          /\ 2 + n <= Len(text)
          /\ text[2 + n] = EM_CLOSE
       THEN SubSeq(text, 2, 1 + n)
       ELSE <<>>

\* positions at which FACEBOOK_REGEXP matches (the suffix of a run of [\d,]
\* that starts there is followed by the literal tail)
FbStarts(text) ==
    {i \in 1..Len(text) :
        /\ text[i] \in NumChars
        /\ i + RunLen(text, i) <= Len(text)
        /\ text[i + RunLen(text, i)] = FB_TAIL}

\* re.search(FACEBOOK_REGEXP, text): leftmost match, greedy group.
FbSearch(text) ==
    IF FbStarts(text) = {} THEN <<>>
    ELSE LET i == CHOOSE j \in FbStarts(text) : \A k \in FbStarts(text) : j <= k
         IN SubSeq(text, i, i + RunLen(text, i) - 1)

\* re.match(TWITTER_URL_REGEXP, url): "https://twitter.com/" and a \w+ name.
WordPaths == {"/x", "/p1", "/p2", "/p3"}
TwitterMatch(url) ==
    /\ Len(url) >= 5
    /\ SubSeq(url, 1, 3) = HTTPS
    /\ url[4] = "twitter.com"
    /\ url[5] \in WordPaths

\* ------------------------------------------------- network call outcomes
\* requests.get either raises or returns a response with a status and a body;
\* a body is an HTML text (tokens) or a JSON document.
NetExc == [kind |-> "exc", ok |-> FALSE, fmt |-> "", text |-> <<>>, doc |-> JNull]
HtmlResp(ok, text) == [kind |-> "resp", ok |-> ok, fmt |-> "html", text |-> text, doc |-> JNull]
JsonResp(ok, doc) == [kind |-> "resp", ok |-> ok, fmt |-> "json", text |-> <<"{}">>, doc |-> doc]

\* resp.json(): raises on a body that is not JSON
RespJson(resp) == IF resp.fmt = "json" THEN Ok(resp.doc) ELSE Raise("JSONDecodeError")

InstagramDoc(x) == JObj("graphql", JObj("user", JObj("edge_followed_by", JObj("count", x))))
TwitterDoc(x) == JArr(<<JObj("followers_count", x)>>)

HtmlBodies ==
    { <<EM_OPEN, "1", ",", "2", EM_CLOSE, "junk">>,
      <<"junk", EM_OPEN, "1", "2", EM_CLOSE>>,
      <<EM_OPEN, ",", EM_CLOSE>>,
      <<EM_OPEN, "1", "2", "junk", EM_CLOSE>>,
      <<"junk", "1", ",", "2", FB_TAIL, "junk">>,
      <<",", FB_TAIL, "1", "2", FB_TAIL>>,
      <<"junk">>,
      <<>> }
CountValues == {JInt(12), JInt(0 - 5), JStr, JNull, JEmptyObj, JArr(<<>>)}
JsonDocs ==
    {InstagramDoc(x) : x \in CountValues} \cup {TwitterDoc(x) : x \in CountValues}
        \cup {JEmptyObj, JArr(<<>>), JStr}
Nets ==
    {NetExc} \cup {HtmlResp(ok, b) : ok \in BOOLEAN, b \in HtmlBodies}
             \cup {JsonResp(ok, d) : ok \in BOOLEAN, d \in JsonDocs}

\* -------------------------------------------------- extract_followers
Providers == {"vk", "facebook", "twitter", "instagram"}
MinusOne == JInt(0 - 1)

\* the vk branch inside the try block
ExtractVk(net) ==
    IF net.kind = "exc" THEN Raise("RequestException")
    ELSE LET m == VkMatch(net.text)
         IN IF m = <<>> THEN Ok(MinusOne) ELSE ParseCount(m)

\* the instagram branch inside the try block
ExtractInstagram(net) ==
    IF net.kind = "exc" THEN Raise("RequestException")
    ELSE LET data == RespJson(net)
         IN IF data.exc # "" THEN data
            ELSE GetPath(data.val, <<"graphql", "user", "edge_followed_by", "count">>)

\* the facebook branch inside the try block
ExtractFacebook(net) ==
    IF net.kind = "exc" THEN Raise("RequestException")
    ELSE LET m == FbSearch(net.text)
         IN IF m = <<>> THEN Ok(MinusOne) ELSE ParseCount(m)

\* the twitter branch inside the try block
ExtractTwitter(url, net) ==
    IF ~TwitterMatch(url) THEN Ok(MinusOne)
    ELSE IF net.kind = "exc" THEN Raise("RequestException")
    ELSE LET data == RespJson(net)
         IN IF data.exc # "" THEN data
            ELSE LET first == GetFirst(data.val)
                 IN IF first.exc # "" THEN first
                    ELSE GetKey(first.val, "followers_count")

\* except Exception: print(e); return -1
CatchAll(r) == IF r.exc # "" THEN Ok(MinusOne) ELSE r

\* extract_followers(provider, url), with net the outcome of the one network
\* call the chosen branch makes.
extract_followers(provider, url, net) ==
    CASE provider = "vk" -> CatchAll(ExtractVk(net))
      [] provider = "instagram" -> CatchAll(ExtractInstagram(net))
      [] provider = "facebook" -> CatchAll(ExtractFacebook(net))
      [] provider = "twitter" -> CatchAll(ExtractTwitter(url, net))
      [] OTHER -> Raise("NotImplementedError")

\* ------------------------------------------------------------ find_links
\* An anchor element: with an href attribute, or without one.
Anchor(h) == [has |-> TRUE, href |-> h]
NoHref == [has |-> FALSE, href |-> <<>>]

RECURSIVE find_links(_, _)
\* the href of every anchor that has one and whose href contains domain, in
\* document order
find_links(soup, domain) ==
    IF soup = <<>> THEN <<>>
    ELSE LET link == Head(soup)
             rest == find_links(Tail(soup), domain)
         IN IF ~link.has THEN rest
            ELSE IF Contains(link.href, domain) THEN <<link.href>> \o rest
            ELSE rest

\* ---------------------------------------------------------- SocialCrawler
\* mutant: a fifth provider that extract_followers has no branch for
social_providersExtra ==
    << [name |-> "vk", domain |-> <<"vk.com">>],
       [name |-> "facebook", domain |-> <<"facebook.com">>],
       [name |-> "twitter", domain |-> <<"twitter.com">>],
       [name |-> "instagram", domain |-> <<"instagram.com">>],
       [name |-> "telegram", domain |-> <<"vk.com">>] >>

social_providers ==
    << [name |-> "vk", domain |-> <<"vk.com">>],
       [name |-> "facebook", domain |-> <<"facebook.com">>],
       [name |-> "twitter", domain |-> <<"twitter.com">>],
       [name |-> "instagram", domain |-> <<"instagram.com">>] >>

\* mutant: the cap compared with <= (one iteration too many)
LoopCondOffByOne(queue, count, cap) == Len(queue) > 0 /\ count <= cap

\* while len(q) > 0 and cnt < self.MAX_ITER
LoopCond(queue, count, cap) == Len(queue) > 0 /\ count < cap

RECURSIVE PairsFor(_, _)
PairsFor(name, links) ==
    IF links = <<>> THEN <<>>
    ELSE <<[name |-> name, link |-> Head(links)]>> \o PairsFor(name, Tail(links))

RECURSIVE SocialPairs(_, _)
\* the (name, link) pairs the two nested "Finding social accounts" loops
\* visit, in the order they visit them, from provider number i on
SocialPairs(soup, i) ==
    IF i > Len(social_providers) THEN <<>>
    ELSE PairsFor(social_providers[i].name, find_links(soup, social_providers[i].domain))
            \o SocialPairs(soup, i + 1)

\* mutant: only the first replace
StripSchemeHttpOnly(url) == Replace(url, HTTP)

\* self.url.replace("http://", "").replace("https://", "")
StripScheme(url) == Replace(Replace(url, HTTP), HTTPS)

\* mutant: the popped URL goes back to the tail
PopLeftRequeue(queue) == Append(Tail(queue), Head(queue))

\* q.popleft(): the queue it leaves
PopLeft(queue) == Tail(queue)

\* mutant: one entry per provider and URL, whatever the count
ResultsAddByUrl(res, triple) ==
    IF \E x \in res : x.name = triple.name /\ x.link = triple.link
    THEN res ELSE res \cup {triple}

\* mutant: a profile whose count is unknown is left out
ResultsAddSkipUnknown(res, triple) ==
    IF triple.count = MinusOne THEN res ELSE res \cup {triple}

\* results.add((name, link, count))
ResultsAdd(res, triple) == res \cup {triple}

\* mutant: the visited set is not consulted
UnseenAlways(link, seen) == TRUE

\* if link not in was
Unseen(link, seen) == link \notin seen

RECURSIVE DeeperLifo(_, _, _)
\* mutant: q.appendleft(link), a stack instead of a queue
DeeperLifo(seen, queue, links) ==
    IF links = <<>> THEN [was |-> seen, q |-> queue]
    ELSE IF Head(links) \notin seen
         THEN DeeperLifo(seen \cup {Head(links)}, <<Head(links)>> \o queue, Tail(links))
         ELSE DeeperLifo(seen, queue, Tail(links))

RECURSIVE DeeperNoMark(_, _, _)
\* mutant: the link is queued but was.add(link) is forgotten
DeeperNoMark(seen, queue, links) ==
    IF links = <<>> THEN [was |-> seen, q |-> queue]
    ELSE IF Head(links) \notin seen
         THEN DeeperNoMark(seen, Append(queue, Head(links)), Tail(links))
         ELSE DeeperNoMark(seen, queue, Tail(links))

RECURSIVE Deeper(_, _, _)
\* the "Going deeper" loop over links: the visited set and the queue after it
Deeper(seen, queue, links) ==
    IF links = <<>> THEN [was |-> seen, q |-> queue]
    ELSE IF Unseen(Head(links), seen)
         THEN Deeper(seen \cup {Head(links)}, Append(queue, Head(links)), Tail(links))
         ELSE Deeper(seen, queue, Tail(links))

GoDeeper(seen, queue, soup, seed) == Deeper(seen, queue, find_links(soup, StripScheme(seed)))

RECURSIVE FirstSeen(_, _)
\* the links the loop hands to was.add: those not in seen, each once, in
\* document order
FirstSeen(links, seen) ==
    IF links = <<>> THEN <<>>
    ELSE IF Head(links) \in seen THEN FirstSeen(Tail(links), seen)
         ELSE <<Head(links)>> \o FirstSeen(Tail(links), seen \cup {Head(links)})

\* the was.add calls of one "Going deeper" loop
Added(seen, soup, seed) == FirstSeen(find_links(soup, StripScheme(seed)), seen)

RECURSIVE Perms(_)
Perms(S) ==
    IF S = {} THEN {<<>>}
    ELSE UNION {{<<x>> \o p : p \in Perms(S \ {x})} : x \in S}

\* list(results): the members of the set, once each, in an order the hashes
\* decide
ListOf(res) == Perms(res)

\* ------------------------------------------------- dictionaries, process
\* mutant: the first dictionary's value is kept where both have the key
MergeKeepFirst(a, b) == a @@ b

\* {**a, **b}: the keys of both, b's value where both have the key
Merge(a, b) == b @@ a

\* add_dict_prefix(prefix, data)
add_dict_prefix(prefix, data) ==
    [key \in {prefix \o k : k \in DOMAIN data} |->
        data[CHOOSE k \in DOMAIN data : prefix \o k = key]]

\* A parsed page: its title element (if any), its meta-like elements and its
\* anchors, in document order.
Meta(name, has, content) == [name |-> name, has |-> has, content |-> content]
Page(hasTitle, title, metas, anchors) ==
    [hasTitle |-> hasTitle, title |-> title, metas |-> metas, anchors |-> anchors]

RECURSIVE SelectContent(_, _)
\* [item['content'] for item in soup.select('[name=A][content], [name=a][content]')]
SelectContent(metas, names) ==
    IF metas = <<>> THEN <<>>
    ELSE LET m == Head(metas)
             rest == SelectContent(Tail(metas), names)
         IN IF m.name \in names /\ m.has THEN <<m.content>> \o rest ELSE rest

\* fetch_metadata(soup)
fetch_metadata(page) ==
    [title |-> IF page.hasTitle THEN page.title ELSE "",
     keywords |-> SelectContent(page.metas, {"Keywords", "keywords"}),
     descriptions |-> SelectContent(page.metas, {"Description", "description"})]

\* if not organization['site_url'].startswith('http'): prefix "http://"
Normalize(u) == IF StartsWithHttp(u) THEN u ELSE HTTP \o u

\* mutant: the status is not looked at
SiteAvailableAnyStatus(resp) == resp.kind = "resp"

\* site_available = resp is not None and resp.ok
SiteAvailable(resp) == resp.kind = "resp" /\ resp.ok

\* the else branch of process: title, keywords, descriptions = "", [], []
NoMetadata == [title |-> "", keywords |-> <<>>, descriptions |-> <<>>]

\* mutant: a site counts as available only if its crawl found a profile
EnrichedAvailableIfSocial(organization, available, md, social_urls) ==
    Merge(Merge(organization,
                add_dict_prefix("site_",
                    [available |-> available /\ social_urls # <<>>, title |-> md.title,
                     keywords |-> md.keywords, descriptions |-> md.descriptions])),
          [social_urls |-> social_urls])

\* the dictionary process returns
Enriched(organization, available, md, social_urls) ==
    Merge(Merge(organization,
                add_dict_prefix("site_",
                    [available |-> available, title |-> md.title,
                     keywords |-> md.keywords, descriptions |-> md.descriptions])),
          [social_urls |-> social_urls])

\* ------------------------------------------------------------ the network
Site == "a.org"
SeedHttp == HTTP \o <<Site>>
PathToks == <<"/p1", "/p2", "/p3", "/p4">>
SitePage(i) == HTTP \o <<Site, PathToks[i]>>
NoSchemePage == <<Site, "/p1">>
RelPage == <<"/about">>
VkUrl == HTTPS \o <<"vk.com", "/x">>
FbUrl == HTTPS \o <<"facebook.com", "/x">>
TwUrl == HTTPS \o <<"twitter.com", "/x">>
TwOldUrl == HTTP \o <<"twitter.com", "/x">>
IgUrl == HTTPS \o <<"instagram.com", "/x">>
VkFbUrl == HTTPS \o <<"vk.com", "/away?to=", "facebook.com", "/x">>
ShareUrl == HTTPS \o <<"vk.com", "/share?url=", Site, "/p2">>

\* a page that links back to the seed and twice to the same inner page
LinkBackPage ==
    <<NoHref, Anchor(RelPage), Anchor(SeedHttp), Anchor(SitePage(1)), Anchor(SitePage(1))>>

\* the page whose anchors are the first n same-site pages
Fanout(n) == [i \in 1..n |-> Anchor(SitePage(i))]

AnchorSeqs(world) ==
    IF world = "full"
    THEN {Fanout(n) : n \in 0..MaxFanout} \cup
         { LinkBackPage,
           <<Anchor(NoSchemePage)>>,
           <<Anchor(VkUrl), Anchor(VkUrl), Anchor(SitePage(1))>>,
           <<Anchor(TwUrl), Anchor(TwOldUrl)>>,
           <<Anchor(IgUrl)>>,
           <<Anchor(VkFbUrl)>>,
           <<Anchor(ShareUrl)>> }
    ELSE {<<>>, <<Anchor(SitePage(1))>>, <<Anchor(IgUrl)>>}

MetaParts(world) ==
    IF world = "full"
    THEN { Page(FALSE, "", <<>>, <<>>),
           Page(TRUE, "Foo", <<Meta("Keywords", TRUE, "a"), Meta("keywords", FALSE, ""),
                               Meta("KEYWORDS", TRUE, "c"), Meta("keywords", TRUE, "b"),
                               Meta("description", TRUE, "d")>>, <<>>) }
    ELSE {Page(TRUE, "Foo", <<>>, <<>>)}

\* the pages a site may serve
Pages(world) ==
    {Page(m.hasTitle, m.title, m.metas, a) : m \in MetaParts(world), a \in AnchorSeqs(world)}

PageExc == [kind |-> "exc", ok |-> FALSE, page |-> Page(FALSE, "", <<>>, <<>>)]
PageResp(ok, page) == [kind |-> "resp", ok |-> ok, page |-> page]

\* what requests.get(u, allow_redirects=True) may do
PageNets(u, world) ==
    IF HasScheme(u)
    THEN {PageExc, PageResp(FALSE, Page(FALSE, "", <<>>, <<>>))}
            \cup {PageResp(TRUE, p) : p \in Pages(world)}
    ELSE {PageExc}

\* what the network call of extract_followers may do
ProfileNets(world) ==
    IF world = "full"
    THEN {NetExc,
          HtmlResp(TRUE, <<EM_OPEN, "1", ",", "2", EM_CLOSE, "junk">>),
          HtmlResp(FALSE, <<"junk", "1", ",", "2", FB_TAIL, "junk">>),
          HtmlResp(TRUE, <<"junk">>),
          JsonResp(TRUE, InstagramDoc(JInt(12))),
          JsonResp(TRUE, InstagramDoc(JEmptyObj)),
          JsonResp(TRUE, TwitterDoc(JInt(12))),
          JsonResp(FALSE, TwitterDoc(JArr(<<>>)))}
    ELSE {NetExc, JsonResp(TRUE, InstagramDoc(JInt(12))), JsonResp(TRUE, InstagramDoc(JEmptyObj))}

\* the listing's records: a name and a site_url; one record already carries a
\* site_title field of its own
SiteUrls == {<<Site>>, HTTPS \o <<Site>>, <<"http", "x.org">>}
InputOrgs(world) ==
    IF world = "full"
    THEN {[site_url |-> u, name |-> "Acme"] : u \in SiteUrls \ {HTTPS \o <<Site>>}}
            \cup {[site_url |-> HTTPS \o <<Site>>, name |-> "Acme", site_title |-> "orig"]}
    ELSE {[site_url |-> <<Site>>, name |-> "Acme"], [site_url |-> SeedHttp, name |-> "Bolt"]}

\* mutant: every slot holds the first call's return value
ParallelResultFirst(rets) == [w \in DOMAIN rets |-> rets[1]]

\* Parallel(n_jobs=100)(delayed(process)(o) for o in organizations): the list
\* of the calls' return values, in the order of the calls
ParallelResult(rets) == [w \in DOMAIN rets |-> rets[w]]

\* ------------------------------------------------------------------ state
VARIABLES
    MAX_ITER,       \* SocialCrawler.MAX_ITER, the configured visit cap (a class
                    \* attribute: 1 as shipped, any value when reconfigured)
    world,          \* which pages and profile responses the network serves:
                    \* "full" for a single organization, "small" for several
    organizations,  \* main: the list handed to Parallel
    mainpc,         \* main: "fetching", "writing", "aborted" ("idle": not run)
    output,         \* main: the list Parallel returned
    pc,             \* per process call: "start", "loop", "social", "done", "raised"
    org,            \* process: its organization dictionary
    meta,           \* process: site_available, title, keywords, descriptions
    url,            \* SocialCrawler.url
    cnt, was, q, results,   \* the locals of crawl
    soup,           \* crawl: the anchors of the page being processed
    pending,        \* crawl: the (name, link) pairs still to extract on it
    ret,            \* process: the returned dictionary
    fetched,        \* history: the page fetches of the crawl loop, in order
    found,          \* history: the triples handed to results.add, in order
    top,            \* history: how the fetch of process ended
    lastPage,       \* history: the anchors of the last page crawl parsed
    disc,           \* history: the URLs given to was.add, in the order of the calls
    probe           \* one call of extract_followers on its own

vars == <<MAX_ITER, world, organizations, mainpc, output, pc, org, meta, url, cnt,
          was, q, results, soup, pending, ret, fetched, found, top, lastPage, disc, probe>>

\* MAX_ITER = 1, the value the class is shipped with
DefaultMaxIter == 1

\* Largest number of organizations in the list.
MaxOrgs == 2

Workers == DOMAIN organizations

NoProbe == [phase |-> "none", provider |-> "", url |-> <<>>, net |-> NetExc, out |-> Ok(JNull)]
NoRet == [site_url |-> <<>>]
NoMeta == [available |-> FALSE, title |-> "", keywords |-> <<>>, descriptions |-> <<>>]

\* main() after the listing is loaded: Parallel is about to call process on
\* every organization.
Init ==
    /\ \E n \in 1..MaxOrgs :
        /\ world = IF n = 1 THEN "full" ELSE "small"
        /\ organizations \in [1..n -> InputOrgs(IF n = 1 THEN "full" ELSE "small")]
        /\ MAX_ITER \in IF n = 1 THEN 1..MaxCap ELSE {DefaultMaxIter}
    /\ mainpc = "fetching"
    /\ output = <<>>
    /\ pc = [w \in Workers |-> "start"]
    /\ org = organizations
    /\ meta = [w \in Workers |-> NoMeta]
    /\ url = [w \in Workers |-> <<>>]
    /\ cnt = [w \in Workers |-> 0]
    /\ was = [w \in Workers |-> {}]
    /\ q = [w \in Workers |-> <<>>]
    /\ results = [w \in Workers |-> {}]
    /\ soup = [w \in Workers |-> <<>>]
    /\ pending = [w \in Workers |-> <<>>]
    /\ ret = [w \in Workers |-> NoRet]
    /\ fetched = [w \in Workers |-> <<>>]
    /\ found = [w \in Workers |-> <<>>]
    /\ top = [w \in Workers |-> "none"]
    /\ lastPage = [w \in Workers |-> <<>>]
    /\ disc = [w \in Workers |-> <<>>]
    /\ probe = NoProbe

mainVars == <<MAX_ITER, world, organizations, mainpc, output, probe>>
crawlVars == <<url, cnt, was, q, results, soup, pending, fetched, found, lastPage, disc>>

\* process: normalise the URL, fetch it, and the site is not available.
ProcessUnavailable(w) ==
    /\ mainpc = "fetching" /\ pc[w] = "start"
    /\ LET site == Normalize(org[w]["site_url"])
           o == [org[w] EXCEPT !["site_url"] = site]
       IN \E resp \in PageNets(site, world) :
            /\ ~SiteAvailable(resp)
            /\ org' = [org EXCEPT ![w] = o]
            /\ meta' = [meta EXCEPT ![w] = [available |-> FALSE, title |-> "",
                                            keywords |-> <<>>, descriptions |-> <<>>]]
            /\ ret' = [ret EXCEPT ![w] = Enriched(o, FALSE, NoMetadata, <<>>)]
            /\ top' = [top EXCEPT ![w] = IF resp.kind = "exc" THEN "exc" ELSE "notok"]
            /\ pc' = [pc EXCEPT ![w] = "done"]
    /\ UNCHANGED <<mainVars, crawlVars>>

\* process: normalise the URL, fetch it, read the metadata, and enter crawl
\* up to its loop.
ProcessAvailable(w) ==
    /\ mainpc = "fetching" /\ pc[w] = "start"
    /\ LET site == Normalize(org[w]["site_url"])
       IN \E resp \in PageNets(site, world) :
            /\ SiteAvailable(resp)
            /\ org' = [org EXCEPT ![w]["site_url"] = site]
            /\ LET md == fetch_metadata(resp.page)
               IN meta' = [meta EXCEPT ![w] = [available |-> TRUE, title |-> md.title,
                              keywords |-> md.keywords, descriptions |-> md.descriptions]]
            /\ url' = [url EXCEPT ![w] = site]
            /\ cnt' = [cnt EXCEPT ![w] = 0]
            /\ was' = [was EXCEPT ![w] = {site}]
            /\ disc' = [disc EXCEPT ![w] = <<site>>]
            /\ q' = [q EXCEPT ![w] = <<site>>]
            /\ results' = [results EXCEPT ![w] = {}]
            /\ top' = [top EXCEPT ![w] = IF resp.ok THEN "ok" ELSE "notok"]
            /\ pc' = [pc EXCEPT ![w] = "loop"]
    /\ UNCHANGED <<mainVars, soup, pending, ret, fetched, found, lastPage>>

\* One iteration whose fetch raises or answers with a non-success status.
CrawlFetchFail(w) ==
    /\ mainpc = "fetching" /\ pc[w] = "loop"
    /\ LoopCond(q[w], cnt[w], MAX_ITER)
    /\ LET nxt == Head(q[w])
       IN \E resp \in PageNets(nxt, world) :
            /\ ~(resp.kind = "resp" /\ resp.ok)
            /\ fetched' = [fetched EXCEPT ![w] = Append(@, [url |-> nxt, ok |-> FALSE])]
    /\ cnt' = [cnt EXCEPT ![w] = @ + 1]
    /\ q' = [q EXCEPT ![w] = PopLeft(@)]
    /\ UNCHANGED <<mainVars, pc, org, meta, url, was, results, soup, pending, ret, found,
                   top, lastPage, disc>>

\* One iteration whose fetch succeeds: the page is parsed; with no social
\* link on it the iteration runs to its end, otherwise it stops before the
\* first call of extract_followers.
CrawlFetchOk(w) ==
    /\ mainpc = "fetching" /\ pc[w] = "loop"
    /\ LoopCond(q[w], cnt[w], MAX_ITER)
    /\ LET nxt == Head(q[w])
       IN \E resp \in PageNets(nxt, world) :
            /\ resp.kind = "resp" /\ resp.ok
            /\ fetched' = [fetched EXCEPT ![w] = Append(@, [url |-> nxt, ok |-> TRUE])]
            /\ LET page == resp.page.anchors
                   pairs == SocialPairs(page, 1)
                   d == GoDeeper(was[w], PopLeft(q[w]), page, url[w])
               IN /\ lastPage' = [lastPage EXCEPT ![w] = page]
                  /\ IF pairs = <<>>
                     THEN /\ was' = [was EXCEPT ![w] = d.was]
                          /\ q' = [q EXCEPT ![w] = d.q]
                          /\ disc' = [disc EXCEPT ![w] = @ \o Added(was[w], page, url[w])]
                          /\ UNCHANGED <<pc, soup, pending>>
                     ELSE /\ q' = [q EXCEPT ![w] = PopLeft(@)]
                          /\ soup' = [soup EXCEPT ![w] = page]
                          /\ pending' = [pending EXCEPT ![w] = pairs]
                          /\ pc' = [pc EXCEPT ![w] = "social"]
                          /\ UNCHANGED <<was, disc>>
    /\ cnt' = [cnt EXCEPT ![w] = @ + 1]
    /\ UNCHANGED <<mainVars, org, meta, url, results, ret, found, top>>

\* results.add((name, link, extract_followers(name, link))) for the next
\* pair; after the last pair of the page, the "Going deeper" loop.
ExtractAdd(w) ==
    /\ mainpc = "fetching" /\ pc[w] = "social"
    /\ LET p == Head(pending[w])
       IN \E net \in ProfileNets(world) :
            LET r == extract_followers(p.name, p.link, net)
                t == [name |-> p.name, link |-> p.link, count |-> r.val]
            IN /\ r.exc = "" /\ Hashable(r.val)
               /\ results' = [results EXCEPT ![w] = ResultsAdd(@, t)]
               /\ found' = [found EXCEPT ![w] = Append(@, t)]
    /\ pending' = [pending EXCEPT ![w] = Tail(@)]
    /\ IF Tail(pending[w]) = <<>>
       THEN LET d == GoDeeper(was[w], q[w], soup[w], url[w])
            IN /\ was' = [was EXCEPT ![w] = d.was]
               /\ q' = [q EXCEPT ![w] = d.q]
               /\ disc' = [disc EXCEPT ![w] = @ \o Added(was[w], soup[w], url[w])]
               /\ soup' = [soup EXCEPT ![w] = <<>>]
               /\ pc' = [pc EXCEPT ![w] = "loop"]
       ELSE UNCHANGED <<was, q, soup, pc, disc>>
    /\ UNCHANGED <<mainVars, org, meta, url, cnt, ret, fetched, top, lastPage>>

\* The same statement when it raises: extract_followers raised, or it
\* returned a value that cannot be hashed and results.add raises TypeError.
\* Nothing in crawl or process catches it.
ExtractRaises(w) ==
    /\ mainpc = "fetching" /\ pc[w] = "social"
    /\ LET p == Head(pending[w])
       IN \E net \in ProfileNets(world) :
            LET r == extract_followers(p.name, p.link, net)
            IN r.exc # "" \/ ~Hashable(r.val)
    /\ pc' = [pc EXCEPT ![w] = "raised"]
    /\ UNCHANGED <<mainVars, org, meta, crawlVars, ret, top>>

\* The loop condition fails: crawl returns list(results) and process returns
\* the enriched dictionary.
CrawlReturn(w) ==
    /\ mainpc = "fetching" /\ pc[w] = "loop"
    /\ ~LoopCond(q[w], cnt[w], MAX_ITER)
    /\ \E social_urls \in ListOf(results[w]) :
        ret' = [ret EXCEPT ![w] = Enriched(org[w], meta[w].available, meta[w], social_urls)]
    /\ pc' = [pc EXCEPT ![w] = "done"]
    /\ UNCHANGED <<mainVars, org, meta, crawlVars, top>>

\* Parallel(...)(...) returns the results in the order of the inputs once
\* every call has returned.
Gather ==
    /\ mainpc = "fetching"
    /\ \A w \in Workers : pc[w] = "done"
    /\ output' = ParallelResult(ret)
    /\ mainpc' = "writing"
    /\ UNCHANGED <<MAX_ITER, world, organizations, probe, pc, org, meta, crawlVars, ret, top>>

\* Parallel re-raises the exception of a call that raised.
Abort ==
    /\ mainpc = "fetching"
    /\ \E w \in Workers : pc[w] = "raised"
    /\ mainpc' = "aborted"
    /\ UNCHANGED <<MAX_ITER, world, organizations, output, probe, pc, org, meta, crawlVars,
                   ret, top>>

Next ==
    \/ \E w \in Workers : ProcessUnavailable(w)
    \/ \E w \in Workers : ProcessAvailable(w)
    \/ \E w \in Workers : CrawlFetchFail(w)
    \/ \E w \in Workers : CrawlFetchOk(w)
    \/ \E w \in Workers : ExtractAdd(w)
    \/ \E w \in Workers : ExtractRaises(w)
    \/ \E w \in Workers : CrawlReturn(w)
    \/ Gather
    \/ Abort

Spec == Init /\ [][Next]_vars

\* ------------------------------------------ extract_followers on its own
ProfileUrls == {VkUrl, FbUrl, TwUrl, TwOldUrl, IgUrl}

\* a caller is about to call extract_followers(provider, url); net is what
\* the network will do
InitExtract ==
    /\ probe \in [phase : {"args"}, provider : Providers \cup {"ok"}, url : ProfileUrls,
                  net : Nets, out : {Ok(JNull)}]
    /\ MAX_ITER = 1
    /\ world = "full"
    /\ organizations = <<>>
    /\ mainpc = "idle"
    /\ output = <<>>
    /\ pc = <<>> /\ org = <<>> /\ meta = <<>> /\ url = <<>> /\ cnt = <<>>
    /\ was = <<>> /\ q = <<>> /\ results = <<>> /\ soup = <<>> /\ pending = <<>>
    /\ ret = <<>> /\ fetched = <<>> /\ found = <<>> /\ top = <<>> /\ lastPage = <<>>
    /\ disc = <<>>

CallExtract ==
    /\ probe.phase = "args"
    /\ probe' = [probe EXCEPT !.phase = "returned",
                              !.out = extract_followers(probe.provider, probe.url, probe.net)]
    /\ UNCHANGED <<MAX_ITER, world, organizations, mainpc, output, pc, org, meta, url, cnt,
                   was, q, results, soup, pending, ret, fetched, found, top, lastPage,
                   disc>>

NextExtract == CallExtract

SpecExtract == InitExtract /\ [][NextExtract]_vars

\* main() and a direct call of extract_followers, side by side
SpecAll == (Init \/ InitExtract) /\ [][Next \/ NextExtract]_vars

\* ================================================================ claims
Range(f) == {f[i] : i \in DOMAIN f}
Last(f) == f[Len(f)]

\* C1: the crawl loop never performs more page fetches than MAX_ITER,
\* whatever the size of the frontier.
FetchesWithinCap == \A w \in Workers : Len(fetched[w]) <= MAX_ITER

\* the cap stopped a crawl whose frontier still held URLs
CapReachedWithFrontier ==
    \E w \in Workers :
        /\ pc[w] = "done" /\ MAX_ITER = 2
        /\ Len(fetched[w]) = MAX_ITER /\ Len(q[w]) >= 1

\* C2: within one crawl no URL is fetched twice as a page: the requests.get of
\* the loop is never given the same URL again.  (The profile fetches that
\* extract_followers makes are not page fetches and are not counted here.)
NoUrlFetchedTwice ==
    \A w \in Workers : \A i, j \in DOMAIN fetched[w] :
        i # j => fetched[w][i].url # fetched[w][j].url

\* the second page fetched links back to the seed and to itself, and nothing
\* was queued for it
LinkBackNotQueued ==
    \E w \in Workers :
        /\ MAX_ITER = 3 /\ pc[w] = "loop"
        /\ Len(fetched[w]) = 2 /\ fetched[w][2].ok
        /\ fetched[w][1].url = SeedHttp
        /\ lastPage[w] = LinkBackPage /\ q[w] = <<>>

\* C3: for every provider of the fixed set and every outcome of the network
\* call, extract_followers does not raise and returns an integer >= -1.
ExtractReturnsCount ==
    (probe.phase = "returned" /\ probe.provider \in Providers) =>
        /\ probe.out.exc = ""
        /\ IsInt(probe.out.val)
        /\ probe.out.val.v >= 0 - 1

\* C4: when the fetch of process raises or answers with a non-success status,
\* process returns the defaults and neither crawls nor extracts.
UnavailableDefaults ==
    \A w \in Workers :
        top[w] \in {"exc", "notok"} =>
            /\ pc[w] = "done"
            /\ ret[w]["site_available"] = FALSE
            /\ ret[w]["site_title"] = ""
            /\ ret[w]["site_keywords"] = <<>>
            /\ ret[w]["site_descriptions"] = <<>>
            /\ ret[w]["social_urls"] = <<>>
            /\ fetched[w] = <<>> /\ found[w] = <<>> /\ cnt[w] = 0

\* process returned for a site that answered with a non-success status
UnavailableReturned ==
    \E w \in Workers :
        /\ top[w] = "notok" /\ pc[w] = "done"
        /\ mainpc = "writing" /\ output[w]["site_available"] = FALSE

\* C5: the returned list holds every discovered triple exactly once: equal
\* triples collapse, triples that differ in the count alone stay apart.
ResultsDedupByTriple ==
    \A w \in Workers :
        (pc[w] = "done" /\ top[w] = "ok") =>
            LET lst == ret[w]["social_urls"]
            IN /\ \A i, j \in DOMAIN lst : i # j => lst[i] # lst[j]
               /\ Range(lst) = Range(found[w])

\* more discoveries than entries, and two entries for one URL with
\* different counts
CollapsedAndDistinct ==
    \E w \in Workers :
        /\ pc[w] = "done" /\ top[w] = "ok"
        /\ LET lst == ret[w]["social_urls"]
           IN /\ Len(found[w]) > Len(lst)
              /\ \E i, j \in DOMAIN lst :
                    /\ lst[i].name = lst[j].name /\ lst[i].link = lst[j].link
                    /\ lst[i].count # lst[j].count

\* C6: with a cap of 1 and a seed page that links to n distinct same-site
\* URLs, the crawl ends after one fetch with exactly those URLs in the
\* frontier and the seed plus those URLs in the visited set.
FanoutCapOne ==
    \A w \in Workers : \A n \in 0..MaxFanout :
        ( /\ MAX_ITER = 1 /\ pc[w] = "done" /\ top[w] = "ok"
          /\ Len(fetched[w]) >= 1 /\ fetched[w][1].ok
          /\ lastPage[w] = Fanout(n) ) =>
            /\ Len(fetched[w]) = 1
            /\ q[w] = [i \in 1..n |-> SitePage(i)]
            /\ was[w] = {url[w]} \cup {SitePage(i) : i \in 1..n}

\* the widest fan-out page was the seed page of a crawl with cap 1
FanoutCapOneReached ==
    \E w \in Workers :
        /\ MAX_ITER = 1 /\ pc[w] = "done" /\ top[w] = "ok"
        /\ Len(fetched[w]) = 1 /\ fetched[w][1].ok
        /\ lastPage[w] = Fanout(MaxFanout) /\ Len(q[w]) = MaxFanout
        /\ url[w] = HTTPS \o <<Site>>

\* C7: a raised network call or a non-success response makes
\* extract_followers return -1, for every provider.
NetworkFailureIsSentinel ==
    ( /\ probe.phase = "returned" /\ probe.provider \in Providers
      /\ (probe.net.kind = "exc" \/ ~probe.net.ok) ) =>
        probe.out = Ok(MinusOne)

\* C8: process never lets an exception escape, whatever the network calls do.
ProcessNeverRaises == \A w \in Workers : pc[w] # "raised"

\* C9: the list Parallel returns holds one record per input record, the
\* record of slot i built from input i and from what call i saw; a step of
\* one call changes no other call's state; a crawl has one fetch at a time.
OnePerInput ==
    mainpc = "writing" =>
        /\ DOMAIN output = DOMAIN organizations
        /\ \A i \in DOMAIN output :
            /\ output[i]["name"] = organizations[i]["name"]
            /\ Contains(output[i]["site_url"], organizations[i]["site_url"])
            /\ output[i]["site_available"] = (top[i] = "ok")
            /\ Range(output[i]["social_urls"]) = Range(found[i])

Local(w) ==
    <<pc[w], org[w], meta[w], url[w], cnt[w], was[w], q[w], results[w], soup[w],
      pending[w], ret[w], fetched[w], found[w], top[w], lastPage[w], disc[w]>>

StepIsLocal ==
    \A a, b \in Workers : (a # b /\ Local(a)' # Local(a)) => Local(b)' = Local(b)

OneFetchAtATime ==
    \A w \in Workers :
        /\ Len(fetched'[w]) <= Len(fetched[w]) + 1
        /\ pc[w] = "social" => fetched'[w] = fetched[w]

\* C9, as one formula: one record per input in every returned list, steps
\* local to one call, one fetch at a time within a crawl.
FanOutIndependent == []OnePerInput /\ [][StepIsLocal /\ OneFetchAtATime]_vars

\* two organizations, one available with a profile found, one not
TwoRecordsGathered ==
    /\ mainpc = "writing" /\ Len(output) = 2
    /\ top[1] = "ok" /\ found[1] # <<>>
    /\ top[2] # "ok"
    /\ output[1]["name"] # output[2]["name"]

\* C10: an iteration whose fetch fails pops the URL and counts it, changes
\* neither the visited set nor the results nor the rest of the frontier, and
\* stays in the loop; a fetched URL is never in the frontier again.
FailedFetchStep(w) ==
    /\ Len(fetched'[w]) = Len(fetched[w]) + 1
    /\ ~Last(fetched'[w]).ok

FailedFetchFrame ==
    \A w \in Workers :
        FailedFetchStep(w) =>
            /\ Last(fetched'[w]).url = Head(q[w])
            /\ q'[w] = Tail(q[w])
            /\ cnt'[w] = cnt[w] + 1
            /\ was'[w] = was[w]
            /\ results'[w] = results[w]
            /\ pc'[w] = "loop"

NeverRequeued ==
    \A w \in Workers : \A i \in DOMAIN fetched[w] : \A j \in DOMAIN q[w] :
        q[w][j] # fetched[w][i].url

\* C10, as one formula: no fetched URL is ever queued again, and every
\* failed iteration has the frame described above.
FailedFetchSkips == []NeverRequeued /\ [][FailedFetchFrame]_vars

\* the second fetch failed and the crawl went on to the next queued URL
ContinuedAfterFailure ==
    \E w \in Workers :
        /\ Len(fetched[w]) = 3
        /\ fetched[w][1].ok /\ ~fetched[w][2].ok
        /\ fetched[w][2].url = SitePage(1) /\ fetched[w][3].url = SitePage(2)

\* C11: the frontier is first-in first-out: the URLs are fetched in the
\* order in which they were added to the visited set, and the frontier is
\* the not yet fetched rest of that order, so links found on a page go to
\* the tail in document order and nothing found later is fetched earlier.
Urls(log) == [i \in DOMAIN log |-> log[i].url]

FetchedInDiscoveryOrder ==
    \A w \in Workers : disc[w] = Urls(fetched[w]) \o q[w]

\* a link found on the second page waits behind the second link of the first
SecondLevelWaits ==
    \E w \in Workers :
        /\ Len(fetched[w]) = 3 /\ pc[w] = "loop"
        /\ fetched[w][2].url = SitePage(1) /\ fetched[w][3].url = SitePage(2)
        /\ q[w] = <<ShareUrl>>

\* C12: a crawl ends only when the frontier is empty or the counter has
\* reached the cap: it never ends, by returning or otherwise, with a URL in
\* the frontier and the counter below the cap.
HaltsOnlyAtHaltingCondition ==
    \A w \in Workers :
        (top[w] = "ok" /\ pc[w] \in {"done", "raised"}) =>
            (Len(q[w]) = 0 \/ cnt[w] >= MAX_ITER)

\* C13: once an iteration has processed a page, the results hold a triple
\* for every provider and every link of the page that contains the
\* provider's domain, with the count extract_followers returned for it (-1
\* included); results only grow, and the returned list is the results.
MatchesRecorded ==
    \A w \in Workers :
        /\ pc[w] \in {"loop", "done"} =>
            \A i \in DOMAIN social_providers : \A k \in DOMAIN lastPage[w] :
                (lastPage[w][k].has
                    /\ Contains(lastPage[w][k].href, social_providers[i].domain)) =>
                    \E t \in results[w] :
                        /\ t.name = social_providers[i].name
                        /\ t.link = lastPage[w][k].href
        /\ Range(found[w]) \subseteq results[w]
        /\ (pc[w] = "done" /\ top[w] = "ok") => Range(ret[w]["social_urls"]) = results[w]

ResultsGrow == \A w \in Workers : top[w] = "ok" => results[w] \subseteq results'[w]

\* C13, as one formula
EveryMatchReturned == []MatchesRecorded /\ [][ResultsGrow]_vars

\* a link that names two providers gave two triples, one of them with -1
TwoProvidersOneLink ==
    \E w \in Workers :
        /\ pc[w] = "done" /\ top[w] = "ok"
        /\ \E a, b \in Range(ret[w]["social_urls"]) :
            /\ a.link = VkFbUrl /\ b.link = VkFbUrl
            /\ a.name = "vk" /\ b.name = "facebook"
            /\ a.count = MinusOne /\ b.count # MinusOne

\* C14: extract_followers raises NotImplementedError exactly when the
\* provider is outside {vk, facebook, twitter, instagram}, and every call the
\* crawl makes (the pairs it is about to extract, the triples it built) names
\* a provider of that set.
NotImplementedOnlyOutsideCrawl ==
    /\ probe.phase = "returned" =>
        ((probe.out.exc = "NotImplementedError") <=> (probe.provider \notin Providers))
    /\ \A w \in Workers :
        /\ \A i \in DOMAIN pending[w] : pending[w][i].name \in Providers
        /\ \A i \in DOMAIN found[w] : found[w][i].name \in Providers

\* a direct call with an unknown provider raised
UnknownProviderRaised ==
    /\ probe.phase = "returned"
    /\ probe.provider \notin Providers
    /\ probe.out.exc = "NotImplementedError"

\* C15: the site_url of every returned record begins with "http://" or
\* "https://", an input URL that already has a scheme is returned unchanged,
\* and normalising the returned URL again changes nothing.
ReturnedUrlHasScheme ==
    \A w \in Workers :
        pc[w] = "done" =>
            /\ HasScheme(ret[w]["site_url"])
            /\ HasScheme(organizations[w]["site_url"]) =>
                ret[w]["site_url"] = organizations[w]["site_url"]
            /\ Normalize(ret[w]["site_url"]) = ret[w]["site_url"]

\* the keys process writes into the record it returns
EnrichedKeys ==
    {"site_available", "site_title", "site_keywords", "site_descriptions", "social_urls"}

\* C16, as stated: every field of the input other than site_url has its
\* original value in the returned record.
InputFieldsKept ==
    \A w \in Workers :
        pc[w] = "done" =>
            \A k \in DOMAIN organizations[w] \ {"site_url"} :
                ret[w][k] = organizations[w][k]

\* C16, amended: the returned record has the input's keys and the enriched
\* keys; an input field whose key is neither site_url nor an enriched key has
\* its original value; every enriched key holds the enriched value, also where
\* the input had a field of that name.
MergeEnrichedWins ==
    \A w \in Workers :
        pc[w] = "done" =>
            /\ DOMAIN ret[w] = DOMAIN organizations[w] \cup EnrichedKeys
            /\ \A k \in DOMAIN organizations[w] \ (EnrichedKeys \cup {"site_url"}) :
                ret[w][k] = organizations[w][k]
            /\ ret[w]["site_url"] = Normalize(organizations[w]["site_url"])
            /\ ret[w]["site_available"] = meta[w].available
            /\ ret[w]["site_title"] = meta[w].title
            /\ ret[w]["site_keywords"] = meta[w].keywords
            /\ ret[w]["site_descriptions"] = meta[w].descriptions
            /\ Range(ret[w]["social_urls"]) = IF top[w] = "ok" THEN results[w] ELSE {}

\* the input's own site_title was replaced by the title of the page
InputTitleReplaced ==
    \E w \in Workers :
        /\ pc[w] = "done" /\ top[w] = "ok"
        /\ "site_title" \in DOMAIN organizations[w]
        /\ ret[w]["site_title"] # organizations[w]["site_title"]
        /\ ret[w]["site_title"] # ""
        /\ ret[w]["name"] = organizations[w]["name"]

\* C17: in every state of a crawl the frontier has no duplicates, every URL
\* of the frontier is in the visited set, no popped URL is in the frontier,
\* and the visited set is the popped URLs together with the frontier, so
\* |was| = cnt + |q|.
FrontierVisitedPartition ==
    \A w \in Workers :
        top[w] = "ok" =>
            LET popped == Range(Urls(fetched[w]))
            IN /\ \A i, j \in DOMAIN q[w] : i # j => q[w][i] # q[w][j]
               /\ Range(q[w]) \subseteq was[w]
               /\ popped \cap Range(q[w]) = {}
               /\ was[w] = popped \cup Range(q[w])
               /\ cnt[w] = Len(fetched[w])
               /\ Cardinality(was[w]) = cnt[w] + Len(q[w])

\* three URLs popped, one of them without an answer, and a fourth waiting
PartitionWithFailure ==
    \E w \in Workers :
        /\ top[w] = "ok" /\ cnt[w] = 3 /\ Len(q[w]) = 1
        /\ \E i \in DOMAIN fetched[w] : ~fetched[w][i].ok
        /\ Cardinality(was[w]) = 4

\* C18: for an available site the crawl fetches the normalized site URL
\* again as its seed, whatever process got for it; when that second fetch
\* fails, process still returns site_available = TRUE with the metadata of
\* the first response and an empty social_urls; triples exist only if a fetch
\* of the crawl itself succeeded.
SeedFetchIndependent ==
    \A w \in Workers :
        top[w] = "ok" =>
            /\ Len(fetched[w]) >= 1 => fetched[w][1].url = Normalize(organizations[w]["site_url"])
            /\ pc[w] = "done" => Len(fetched[w]) >= 1
            /\ (pc[w] = "done" /\ ~fetched[w][1].ok) =>
                /\ ret[w]["site_available"] = TRUE
                /\ ret[w]["site_title"] = meta[w].title
                /\ ret[w]["site_keywords"] = meta[w].keywords
                /\ ret[w]["site_descriptions"] = meta[w].descriptions
                /\ ret[w]["social_urls"] = <<>>
            /\ (\A i \in DOMAIN fetched[w] : ~fetched[w][i].ok) =>
                results[w] = {} /\ found[w] = <<>>

\* the first fetch gave a page with a title and keywords, the second failed
AvailableButSeedFailed ==
    \E w \in Workers :
        /\ pc[w] = "done" /\ top[w] = "ok"
        /\ Len(fetched[w]) = 1 /\ ~fetched[w][1].ok
        /\ ret[w]["site_available"] = TRUE
        /\ ret[w]["site_title"] # "" /\ ret[w]["site_keywords"] # <<>>
        /\ ret[w]["social_urls"] = <<>>

====
